---- MODULE Spec2Model ----
(***************************************************************************)
(* Allow-list registry of wallet addresses tied to Discord users.          *)
(*                                                                         *)
(* The model covers the slash-command handlers of src/wlbot.js (add,       *)
(* check, replace, increase-slots, export) and the HTTP routes of          *)
(* src/unnamed/part_000 and src/unnamed/part_001 that write to the same    *)
(* Wallet collection.  In Spec, SpecApi and SpecServer every handler is    *)
(* one atomic action: requests are executed one at a time, and the process *)
(* returns to waiting for the next request once the reply is sent.  In     *)
(* SpecConc, SpecWriters and SpecAlone a handler of the bot is a sequence  *)
(* of steps, one per store call, and the steps of two handlers interleave. *)
(***************************************************************************)
EXTENDS Integers, Sequences, FiniteSets, TLC

VARIABLES
    Wallet,     \* the Wallet collection, in store iteration (insertion) order
    API_KEY,    \* process.env.API_KEY, fixed when the process starts
    last,       \* the request being answered, with its reply ("none": waiting)
    adds,       \* history: per user, the addwhitelist requests that created a document
    procs       \* the handlers in progress when requests interleave, per slot

vars == <<Wallet, API_KEY, last, adds, procs>>

(***************************************************************************)
(* Bounds of the model.                                                    *)
(***************************************************************************)
MaxDocs == 2        \* documents in the collection
MaxSlots == 3       \* largest maxWhitelistEntries an increase may produce
MaxRaceDocs == 3    \* documents in the collection when handlers interleave

Users == {"u1", "u2"}
Addresses == {"a", "b", "NONE"}
ListTypes == {"whitelist", "freemint"}

WHITELIST_ROLE_ID == "111111111111111111"
FREEMINT_ROLE_ID == "222222222222222222"
ADMIN_ROLE_ID == "333333333333333333"
RoleIds == {WHITELIST_ROLE_ID, FREEMINT_ROLE_ID, ADMIN_ROLE_ID}

\* interaction.member.roles.cache of the callers: no role, or one of the three.
Members == {{}} \cup {{r} : r \in RoleIds}

\* The 'slots' option of increasewhiteslots: any integer.
Deltas == {0 - 1, 0, 1, 2}

\* A field that a request or a document does not carry.
undefined == "undefined"

Keys == {"k1", "k2"}

(***************************************************************************)
(* Documents and queries.                                                  *)
(***************************************************************************)

\* Wallet.create: the schema defaults fill registeredViaCode.
\* Variant: a new document always carries the default limit.
NewDocDefaultMax(discordId, walletAddress, listType, maxWhitelistEntries) ==
    [discordId |-> discordId,
     walletAddress |-> walletAddress,
     listType |-> listType,
     registeredViaCode |-> FALSE,
     maxWhitelistEntries |-> 1]

NewDoc(discordId, walletAddress, listType, maxWhitelistEntries) ==
    [discordId |-> discordId,
     walletAddress |-> walletAddress,
     listType |-> listType,
     registeredViaCode |-> FALSE,
     maxWhitelistEntries |-> maxWhitelistEntries]

\* Wallet.find({discordId, listType}): the matching documents, in store order.
FindByOwner(s, discordId, listType) ==
    SelectSeq(s, LAMBDA d : d.discordId = discordId /\ d.listType = listType)

\* Indexes of the documents matching {discordId, walletAddress, listType}.
MatchIdx(s, discordId, walletAddress, listType) ==
    {i \in 1..Len(s) : /\ s[i].discordId = discordId
                       /\ s[i].walletAddress = walletAddress
                       /\ s[i].listType = listType}

Min(S) == CHOOSE x \in S : \A y \in S : x <= y

\* Variant: the query leaves out listType.
FindOneIdxAnyList(s, discordId, walletAddress, listType) ==
    LET m == {i \in 1..Len(s) : /\ s[i].discordId = discordId
                                /\ s[i].walletAddress = walletAddress}
    IN  IF m = {} THEN 0 ELSE Min(m)

\* Wallet.findOne(...): index of the first match, 0 for null.
FindOneIdx(s, discordId, walletAddress, listType) ==
    IF MatchIdx(s, discordId, walletAddress, listType) = {} THEN 0
    ELSE Min(MatchIdx(s, discordId, walletAddress, listType))

\* Variant: any role passes the check.
hasRoleAny(member, roleId) == member # {}

hasRole(member, roleId) == roleId \in member

\* What a handler returns: the reply, the collection afterwards, and the
\* limits the reply text mentions (0 when it mentions none).
Outcome(reply, s, oldMax, newMax) ==
    [reply |-> reply, store |-> s, oldMax |-> oldMax, newMax |-> newMax]

(***************************************************************************)
(* addWallet                                                               *)
(***************************************************************************)

\* Variant: the limit is the largest the fetched documents carry.
RECURSIVE currentMaxOfLargest(_)
currentMaxOfLargest(existingDocs) ==
    IF Len(existingDocs) = 0 THEN 1
    ELSE IF Len(existingDocs) = 1 THEN existingDocs[1].maxWhitelistEntries
    ELSE LET rest == currentMaxOfLargest(Tail(existingDocs))
         IN  IF existingDocs[1].maxWhitelistEntries >= rest
             THEN existingDocs[1].maxWhitelistEntries
             ELSE rest

\* Variant: the limit is always the default.
currentMaxOfDefault(existingDocs) == 1

currentMaxOf(existingDocs) ==
    IF Len(existingDocs) > 0 THEN existingDocs[1].maxWhitelistEntries ELSE 1

alreadyUsedIn(existingDocs, wallet) ==
    \E i \in 1..Len(existingDocs) : existingDocs[i].walletAddress = wallet

\* Variant: the comparison is off by one.
atLimitStrict(listType, existingDocs, currentMax) ==
    listType = "whitelist" /\ Len(existingDocs) > currentMax

\* Variant: the limit is never enforced.
atLimitNever(listType, existingDocs, currentMax) == FALSE

atLimit(listType, existingDocs, currentMax) ==
    listType = "whitelist" /\ Len(existingDocs) >= currentMax

\* Variant: the slot limit is checked before the duplicate.
addWalletLimitFirst(s, userId, member, wallet, listType, roleId) ==
    IF ~hasRole(member, roleId)
    THEN Outcome("PermissionDenied", s, 0, 0)
    ELSE LET existingDocs == FindByOwner(s, userId, listType)
             currentMax == currentMaxOf(existingDocs)
         IN  IF atLimit(listType, existingDocs, currentMax)
             THEN Outcome("SlotLimitExceeded", s, 0, currentMax)
             ELSE IF alreadyUsedIn(existingDocs, wallet)
             THEN Outcome("DuplicateEntry", s, 0, 0)
             ELSE Outcome("ok",
                          Append(s, NewDoc(userId, wallet, listType, currentMax)),
                          0, 0)

addWallet(s, userId, member, wallet, listType, roleId) ==
    IF ~hasRole(member, roleId)
    THEN Outcome("PermissionDenied", s, 0, 0)
    ELSE LET existingDocs == FindByOwner(s, userId, listType)
             currentMax == currentMaxOf(existingDocs)
         IN  IF alreadyUsedIn(existingDocs, wallet)
             THEN Outcome("DuplicateEntry", s, 0, 0)
             ELSE IF atLimit(listType, existingDocs, currentMax)
             THEN Outcome("SlotLimitExceeded", s, 0, currentMax)
             ELSE Outcome("ok",
                          Append(s, NewDoc(userId, wallet, listType, currentMax)),
                          0, 0)

(***************************************************************************)
(* checkWallet                                                             *)
(***************************************************************************)

\* Variant: the query leaves the list out.
checkWalletAnyList(s, wallet, listType) ==
    IF \E i \in 1..Len(s) : s[i].walletAddress = wallet
    THEN Outcome("present", s, 0, 0)
    ELSE Outcome("absent", s, 0, 0)

checkWallet(s, wallet, listType) ==
    IF \E i \in 1..Len(s) : s[i].walletAddress = wallet /\ s[i].listType = listType
    THEN Outcome("present", s, 0, 0)
    ELSE Outcome("absent", s, 0, 0)

(***************************************************************************)
(* replaceWallet                                                           *)
(***************************************************************************)

\* Variant: no check that the new wallet is already held.
replaceWalletNoDuplicateCheck(s, userId, member, oldWallet, newWallet, listType, roleId) ==
    IF ~hasRole(member, roleId)
    THEN Outcome("PermissionDenied", s, 0, 0)
    ELSE LET doc == FindOneIdx(s, userId, oldWallet, listType)
         IN  IF doc = 0
             THEN Outcome("EntryNotFound", s, 0, 0)
             ELSE Outcome("ok",
                          [s EXCEPT ![doc].walletAddress = newWallet],
                          0, 0)

\* Variant: the document is written anew, with the schema's default limit.
replaceWalletFreshDoc(s, userId, member, oldWallet, newWallet, listType, roleId) ==
    IF ~hasRole(member, roleId)
    THEN Outcome("PermissionDenied", s, 0, 0)
    ELSE LET doc == FindOneIdx(s, userId, oldWallet, listType)
             duplicate == FindOneIdx(s, userId, newWallet, listType)
         IN  IF doc = 0
             THEN Outcome("EntryNotFound", s, 0, 0)
             ELSE IF duplicate # 0
             THEN Outcome("DuplicateEntry", s, 0, 0)
             ELSE Outcome("ok",
                          [s EXCEPT ![doc] = NewDoc(userId, newWallet, listType, 1)],
                          0, 0)

replaceWallet(s, userId, member, oldWallet, newWallet, listType, roleId) ==
    IF ~hasRole(member, roleId)
    THEN Outcome("PermissionDenied", s, 0, 0)
    ELSE LET doc == FindOneIdx(s, userId, oldWallet, listType)
             duplicate == FindOneIdx(s, userId, newWallet, listType)
         IN  IF doc = 0
             THEN Outcome("EntryNotFound", s, 0, 0)
             ELSE IF duplicate # 0
             THEN Outcome("DuplicateEntry", s, 0, 0)
             ELSE Outcome("ok",
                          [s EXCEPT ![doc].walletAddress = newWallet],
                          0, 0)

(***************************************************************************)
(* increasewhiteslots                                                      *)
(***************************************************************************)

\* Variant: only the first document of the owner is rewritten.
rewriteMaxFirstOnly(s, targetId, newMax) ==
    [i \in 1..Len(s) |->
        IF /\ s[i].discordId = targetId /\ s[i].listType = "whitelist"
           /\ \A j \in 1..(i - 1) :
                ~(s[j].discordId = targetId /\ s[j].listType = "whitelist")
        THEN [s[i] EXCEPT !.maxWhitelistEntries = newMax]
        ELSE s[i]]

\* The batch rewrite: every document of the owner on the whitelist.
rewriteMax(s, targetId, newMax) ==
    [i \in 1..Len(s) |->
        IF s[i].discordId = targetId /\ s[i].listType = "whitelist"
        THEN [s[i] EXCEPT !.maxWhitelistEntries = newMax]
        ELSE s[i]]

\* Variant: the placeholder forgets the default slot.
increaseWhiteSlotsNoDefault(s, member, targetId, slotsToAdd) ==
    IF ~hasRole(member, ADMIN_ROLE_ID)
    THEN Outcome("PermissionDenied", s, 0, 0)
    ELSE IF slotsToAdd <= 0
    THEN Outcome("InvalidArgument", s, 0, 0)
    ELSE LET userDocs == FindByOwner(s, targetId, "whitelist")
         IN  IF Len(userDocs) = 0
             THEN Outcome("created",
                          Append(s, NewDoc(targetId, "NONE", "whitelist",
                                           slotsToAdd)),
                          0, slotsToAdd)
             ELSE LET oldMax == userDocs[1].maxWhitelistEntries
                      newMax == oldMax + slotsToAdd
                  IN  Outcome("updated", rewriteMax(s, targetId, newMax),
                              oldMax, newMax)

\* Variant: any number of slots is accepted.
increaseWhiteSlotsAnyNumber(s, member, targetId, slotsToAdd) ==
    IF ~hasRole(member, ADMIN_ROLE_ID)
    THEN Outcome("PermissionDenied", s, 0, 0)
    ELSE LET userDocs == FindByOwner(s, targetId, "whitelist")
         IN  IF Len(userDocs) = 0
             THEN Outcome("created",
                          Append(s, NewDoc(targetId, "NONE", "whitelist",
                                           1 + slotsToAdd)),
                          0, 1 + slotsToAdd)
             ELSE LET oldMax == userDocs[1].maxWhitelistEntries
                      newMax == oldMax + slotsToAdd
                  IN  Outcome("updated", rewriteMax(s, targetId, newMax),
                              oldMax, newMax)

\* Variant: only a negative number of slots is refused.
increaseWhiteSlotsAllowZero(s, member, targetId, slotsToAdd) ==
    IF ~hasRole(member, ADMIN_ROLE_ID)
    THEN Outcome("PermissionDenied", s, 0, 0)
    ELSE IF slotsToAdd < 0
    THEN Outcome("InvalidArgument", s, 0, 0)
    ELSE LET userDocs == FindByOwner(s, targetId, "whitelist")
         IN  IF Len(userDocs) = 0
             THEN Outcome("created",
                          Append(s, NewDoc(targetId, "NONE", "whitelist",
                                           1 + slotsToAdd)),
                          0, 1 + slotsToAdd)
             ELSE LET oldMax == userDocs[1].maxWhitelistEntries
                      newMax == oldMax + slotsToAdd
                  IN  Outcome("updated", rewriteMax(s, targetId, newMax),
                              oldMax, newMax)

\* Variant: the limit of an owner without documents is announced but no
\* placeholder is stored.
increaseWhiteSlotsNoPlaceholder(s, member, targetId, slotsToAdd) ==
    IF ~hasRole(member, ADMIN_ROLE_ID)
    THEN Outcome("PermissionDenied", s, 0, 0)
    ELSE IF slotsToAdd <= 0
    THEN Outcome("InvalidArgument", s, 0, 0)
    ELSE LET userDocs == FindByOwner(s, targetId, "whitelist")
         IN  IF Len(userDocs) = 0
             THEN Outcome("created", s, 0, 1 + slotsToAdd)
             ELSE LET oldMax == userDocs[1].maxWhitelistEntries
                      newMax == oldMax + slotsToAdd
                  IN  Outcome("updated", rewriteMax(s, targetId, newMax),
                              oldMax, newMax)

increaseWhiteSlots(s, member, targetId, slotsToAdd) ==
    IF ~hasRole(member, ADMIN_ROLE_ID)
    THEN Outcome("PermissionDenied", s, 0, 0)
    ELSE IF slotsToAdd <= 0
    THEN Outcome("InvalidArgument", s, 0, 0)
    ELSE LET userDocs == FindByOwner(s, targetId, "whitelist")
         IN  IF Len(userDocs) = 0
             THEN Outcome("created",
                          Append(s, NewDoc(targetId, "NONE", "whitelist",
                                           1 + slotsToAdd)),
                          0, 1 + slotsToAdd)
             ELSE LET oldMax == userDocs[1].maxWhitelistEntries
                      newMax == oldMax + slotsToAdd
                  IN  Outcome("updated", rewriteMax(s, targetId, newMax),
                              oldMax, newMax)

(***************************************************************************)
(* exportList                                                              *)
(***************************************************************************)

\* The routes the companion servers define for GET.
Servers == {"part_000", "part_001"}

\* res.ok of the fetch of `${API_BASE_URL}/${endpoint}`: part_000 always sends
\* the CSV, part_001 answers 404 on an empty collection, and neither server
\* has a route other than /exportwhitelist.
fetchOk(s, endpoint, server) ==
    /\ endpoint = "exportwhitelist"
    /\ server = "part_001" => Len(s) > 0

exportList(s, member, endpoint, server) ==
    IF ~hasRole(member, ADMIN_ROLE_ID)
    THEN Outcome("PermissionDenied", s, 0, 0)
    ELSE IF ~fetchOk(s, endpoint, server)
    THEN Outcome("FetchFailed", s, 0, 0)
    ELSE Outcome("exported", s, 0, 0)

(***************************************************************************)
(* The HTTP API: part_000 and part_001.  Their schema has no listType, so  *)
(* the documents they create carry none and their queries match on         *)
(* {discordId, walletAddress} whatever the listType.                       *)
(***************************************************************************)

Headers == {undefined} \cup Keys

\* part_000: 403 unless the header is identical to process.env.API_KEY.
authenticate0(providedApiKey, apiKey) == providedApiKey = apiKey

\* part_001: a missing header is refused before the comparison.
authenticate1(providedApiKey, apiKey) ==
    providedApiKey # undefined /\ providedApiKey = apiKey

\* Variant: the query finds no document.
FindOneAnyListNull(s, discordId, walletAddress) == 0

\* Wallet.findOne({discordId, walletAddress}): index of the first match, 0 for
\* null.  An undefined value is sent as null and matches no document.
FindOneAnyList(s, discordId, walletAddress) ==
    LET m == {i \in 1..Len(s) : /\ discordId # undefined
                                /\ walletAddress # undefined
                                /\ s[i].discordId = discordId
                                /\ s[i].walletAddress = walletAddress}
    IN  IF m = {} THEN 0 ELSE Min(m)

\* 'required: true' of the schema: validation fails when a field is missing.
validates(discordId, walletAddress) ==
    discordId # undefined /\ walletAddress # undefined

\* Variant: the route refuses an owner who holds as many documents as the
\* first of them allows.
postWhitelist0Limited(s, providedApiKey, apiKey, discordId, walletAddress) ==
    LET held == {i \in 1..Len(s) : s[i].discordId = discordId}
    IN  IF ~authenticate0(providedApiKey, apiKey)
        THEN Outcome("403", s, 0, 0)
        ELSE IF FindOneAnyList(s, discordId, walletAddress) # 0
        THEN Outcome("400", s, 0, 0)
        ELSE IF ~validates(discordId, walletAddress)
        THEN Outcome("ValidationError", s, 0, 0)
        ELSE IF held # {} /\ Cardinality(held) >= s[Min(held)].maxWhitelistEntries
        THEN Outcome("400", s, 0, 0)
        ELSE Outcome("200",
                     Append(s, NewDoc(discordId, walletAddress, undefined, 1)),
                     0, 0)

\* part_000, POST /whitelist
postWhitelist0(s, providedApiKey, apiKey, discordId, walletAddress) ==
    IF ~authenticate0(providedApiKey, apiKey)
    THEN Outcome("403", s, 0, 0)
    ELSE IF FindOneAnyList(s, discordId, walletAddress) # 0
    THEN Outcome("400", s, 0, 0)
    ELSE IF ~validates(discordId, walletAddress)
    THEN Outcome("ValidationError", s, 0, 0)
    ELSE Outcome("200", Append(s, NewDoc(discordId, walletAddress, undefined, 1)),
                 0, 0)

\* part_000, POST /replacewhitelist
replaceWhitelist0(s, providedApiKey, apiKey, discordId, oldWallet, newWallet) ==
    IF ~authenticate0(providedApiKey, apiKey)
    THEN Outcome("403", s, 0, 0)
    ELSE LET existing == FindOneAnyList(s, discordId, oldWallet)
         IN  IF existing = 0
             THEN Outcome("404", s, 0, 0)
             ELSE IF ~validates(discordId, newWallet)
             THEN Outcome("ValidationError", s, 0, 0)
             ELSE Outcome("200",
                          [s EXCEPT ![existing].walletAddress = newWallet],
                          0, 0)

\* part_001, POST /whitelist
postWhitelist1(s, providedApiKey, apiKey, discordId, walletAddress) ==
    IF ~authenticate1(providedApiKey, apiKey)
    THEN Outcome("403", s, 0, 0)
    ELSE IF discordId = undefined \/ walletAddress = undefined
    THEN Outcome("400", s, 0, 0)
    ELSE IF FindOneAnyList(s, discordId, walletAddress) # 0
    THEN Outcome("400", s, 0, 0)
    ELSE Outcome("200", Append(s, NewDoc(discordId, walletAddress, undefined, 1)),
                 0, 0)

\* part_001, POST /replacewhitelist
replaceWhitelist1(s, providedApiKey, apiKey, discordId, oldWallet, newWallet) ==
    IF ~authenticate1(providedApiKey, apiKey)
    THEN Outcome("403", s, 0, 0)
    ELSE IF discordId = undefined \/ oldWallet = undefined \/ newWallet = undefined
    THEN Outcome("400", s, 0, 0)
    ELSE LET existingEntry == FindOneAnyList(s, discordId, oldWallet)
         IN  IF existingEntry = 0
             THEN Outcome("400", s, 0, 0)
             ELSE Outcome("200",
                          [s EXCEPT ![existingEntry].walletAddress = newWallet],
                          0, 0)

(***************************************************************************)
(* GET /exportwhitelist.  A text is the sequence of its pieces: a field    *)
(* value, a "," or a "\n".                                                  *)
(***************************************************************************)

\* Array.prototype.join over texts.
RECURSIVE join(_, _)
join(parts, sep) ==
    IF Len(parts) = 0 THEN <<>>
    ELSE IF Len(parts) = 1 THEN parts[1]
    ELSE parts[1] \o <<sep>> \o join(Tail(parts), sep)

\* The texts of the elements of an array, as join converts them.
texts(array) == [i \in 1..Len(array) |-> <<array[i]>>]

\* part_000: csv += `${discordId},${walletAddress}\n` for each document.
RECURSIVE forEach0(_, _)
forEach0(wallets, csv) ==
    IF Len(wallets) = 0 THEN csv
    ELSE forEach0(Tail(wallets),
                  csv \o <<wallets[1].discordId, ",",
                           wallets[1].walletAddress, "\n">>)

csv0(wallets) ==
    forEach0(wallets, <<"Discord ID", ",", "Wallet Address", "\n">>)

\* part_001
csvHeaders ==
    <<"Discord ID", "Wallet Address", "Registered Via Code",
      "Max Whitelist Entries">>

\* Variant: the first two columns of a row change places.
csvRowsSwapped(whitelistData) ==
    [i \in 1..Len(whitelistData) |->
        <<whitelistData[i].walletAddress,
          whitelistData[i].discordId,
          IF whitelistData[i].registeredViaCode THEN "Yes" ELSE "No",
          ToString(whitelistData[i].maxWhitelistEntries)>>]

csvRows(whitelistData) ==
    [i \in 1..Len(whitelistData) |->
        <<whitelistData[i].discordId,
          whitelistData[i].walletAddress,
          IF whitelistData[i].registeredViaCode THEN "Yes" ELSE "No",
          ToString(whitelistData[i].maxWhitelistEntries)>>]

csvContent(whitelistData) ==
    LET rows == csvRows(whitelistData)
    IN  join(<<join(texts(csvHeaders), ",")>>
                 \o [i \in 1..Len(rows) |-> join(texts(rows[i]), ",")],
             "\n")

\* const csvData = await res.text(): the text the server sent to the bot.
csvData(s, server) ==
    IF server = "part_000" THEN csv0(s) ELSE csvContent(s)

\* The response of an export route: the status and the text sent.
Response(status, text) == [reply |-> status, csv |-> text]

\* part_000, GET /exportwhitelist
exportWhitelist0(s, providedApiKey, apiKey) ==
    IF ~authenticate0(providedApiKey, apiKey)
    THEN Response("403", <<>>)
    ELSE Response("200", csv0(s))

\* part_001, GET /exportwhitelist
exportWhitelist1(s, providedApiKey, apiKey) ==
    IF ~authenticate1(providedApiKey, apiKey)
    THEN Response("403", <<>>)
    ELSE IF Len(s) = 0
    THEN Response("404", <<>>)
    ELSE Response("200", csvContent(s))

(***************************************************************************)
(* The requests.                                                           *)
(***************************************************************************)

NoRequest ==
    [op |-> "none", userId |-> undefined, member |-> {}, wallet |-> undefined,
     newWallet |-> undefined, listType |-> undefined, slots |-> 0,
     header |-> undefined, reply |-> "none", oldMax |-> 0, newMax |-> 0,
     csv |-> <<>>]

\* A request as its handler read it, with the reply.
Request(op, userId, member, wallet, newWallet, listType, slots, out) ==
    [op |-> op, userId |-> userId, member |-> member, wallet |-> wallet,
     newWallet |-> newWallet, listType |-> listType, slots |-> slots,
     header |-> undefined,
     reply |-> out.reply, oldMax |-> out.oldMax, newMax |-> out.newMax,
     csv |-> <<>>]

\* An HTTP request with its 'api-key' header and the status of the response.
HttpRequest(op, header, discordId, wallet, newWallet, out) ==
    [op |-> op, userId |-> discordId, member |-> {}, wallet |-> wallet,
     newWallet |-> newWallet, listType |-> undefined, slots |-> 0,
     header |-> header,
     reply |-> out.reply, oldMax |-> 0, newMax |-> 0,
     csv |-> <<>>]

\* The handlers read the command options only after the role check has
\* passed: a caller without the role sends options nobody reads.
Options(member, roleId, values, unread) ==
    IF hasRole(member, roleId) THEN values ELSE {unread}

RoleOf(listType) ==
    IF listType = "whitelist" THEN WHITELIST_ROLE_ID ELSE FREEMINT_ROLE_ID

\* The collection and the limits stay within the bounds of the model.
InBounds(s) ==
    /\ Len(s) <= MaxDocs
    /\ \A i \in 1..Len(s) : s[i].maxWhitelistEntries <= MaxSlots

\* The handlers that may be in progress at once.
Procs == {1, 2}

\* A slot with no handler in progress.
Idle ==
    [pc |-> "idle", op |-> "none", userId |-> undefined, wallet |-> undefined,
     newWallet |-> undefined, listType |-> undefined, slots |-> 0,
     docs |-> <<>>, saved |-> 0, oldMax |-> 0, newMax |-> 0,
     reply |-> "none", roles |-> {}]

Init ==
    /\ Wallet = <<>>
    /\ API_KEY = "k1"
    /\ last = NoRequest
    /\ adds = [u \in Users |-> 0]
    /\ procs = [p \in Procs |-> Idle]

Waiting == last.op = "none"

\* /addwhitelist, /addfreemint
AddWallet ==
    \E userId \in Users, member \in Members, listType \in ListTypes :
      \E wallet \in Options(member, RoleOf(listType), Addresses, undefined) :
        LET out == addWallet(Wallet, userId, member, wallet, listType,
                             RoleOf(listType))
        IN  /\ Waiting
            /\ InBounds(out.store)
            /\ Wallet' = out.store
            /\ last' = Request("add", userId, member, wallet, undefined,
                               listType, 0, out)
            /\ adds' = IF out.reply = "ok" /\ listType = "whitelist"
                       THEN [adds EXCEPT ![userId] = @ + 1]
                       ELSE adds
            /\ UNCHANGED <<API_KEY, procs>>

\* /checkwhitelist, /checkfreemint
CheckWallet ==
    \E member \in Members, wallet \in Addresses, listType \in ListTypes :
        LET out == checkWallet(Wallet, wallet, listType)
        IN  /\ Waiting
            /\ Wallet' = out.store
            /\ last' = Request("check", undefined, member, wallet, undefined,
                               listType, 0, out)
            /\ UNCHANGED <<API_KEY, adds, procs>>

\* /replacewhitelist, /replacefreemint
ReplaceWallet ==
    \E userId \in Users, member \in Members, listType \in ListTypes :
      \E oldWallet \in Options(member, RoleOf(listType), Addresses, undefined),
         newWallet \in Options(member, RoleOf(listType), Addresses, undefined) :
        LET out == replaceWallet(Wallet, userId, member, oldWallet, newWallet,
                                 listType, RoleOf(listType))
        IN  /\ Waiting
            /\ Wallet' = out.store
            /\ last' = Request("replace", userId, member, oldWallet, newWallet,
                               listType, 0, out)
            /\ UNCHANGED <<API_KEY, adds, procs>>

\* /increasewhiteslots
IncreaseWhiteSlots ==
    \E member \in Members :
      \E targetId \in Options(member, ADMIN_ROLE_ID, Users, undefined),
         slotsToAdd \in Options(member, ADMIN_ROLE_ID, Deltas, 0) :
        LET out == increaseWhiteSlots(Wallet, member, targetId, slotsToAdd)
        IN  /\ Waiting
            /\ InBounds(out.store)
            /\ Wallet' = out.store
            /\ last' = Request("increase", targetId, member, undefined,
                               undefined, "whitelist", slotsToAdd, out)
            /\ UNCHANGED <<API_KEY, adds, procs>>

\* /exportwhitelist, /exportfreemint
ExportList ==
    \E member \in Members, listType \in ListTypes, server \in Servers :
        LET out == exportList(Wallet, member, "export" \o listType, server)
        IN  /\ Waiting
            /\ Wallet' = out.store
            /\ last' = [Request("export", undefined, member, undefined,
                                undefined, listType, 0, out)
                            EXCEPT !.csv = IF out.reply = "exported"
                                           THEN csvData(Wallet, server)
                                           ELSE <<>>]
            /\ UNCHANGED <<API_KEY, adds, procs>>

\* The reply is sent and the handler returns; the process waits again.
Return ==
    /\ ~Waiting
    /\ last' = NoRequest
    /\ UNCHANGED <<Wallet, API_KEY, adds, procs>>

Next ==
    \/ AddWallet
    \/ CheckWallet
    \/ ReplaceWallet
    \/ IncreaseWhiteSlots
    \/ ExportList
    \/ Return

Spec == Init /\ [][Next]_vars

(***************************************************************************)
(* The command surface together with the HTTP API on the same collection.  *)
(***************************************************************************)

\* The body of a request is read by the route only once authenticate has
\* called next().
Body(authenticated, values) ==
    IF authenticated THEN values \cup {undefined} ELSE {undefined}

InitApi ==
    /\ Wallet = <<>>
    /\ API_KEY \in {undefined, "k1"}
    /\ last = NoRequest
    /\ adds = [u \in Users |-> 0]
    /\ procs = [p \in Procs |-> Idle]

PostWhitelist0 ==
    \E header \in Headers :
      \E discordId \in Body(authenticate0(header, API_KEY), Users),
         walletAddress \in Body(authenticate0(header, API_KEY), Addresses) :
        LET out == postWhitelist0(Wallet, header, API_KEY, discordId, walletAddress)
        IN  /\ Waiting
            /\ InBounds(out.store)
            /\ Wallet' = out.store
            /\ last' = HttpRequest("post0", header, discordId, walletAddress,
                                   undefined, out)
            /\ UNCHANGED <<API_KEY, adds, procs>>

ReplaceWhitelist0 ==
    \E header \in Headers :
      \E discordId \in Body(authenticate0(header, API_KEY), Users),
         oldWallet \in Body(authenticate0(header, API_KEY), Addresses),
         newWallet \in Body(authenticate0(header, API_KEY), Addresses) :
        LET out == replaceWhitelist0(Wallet, header, API_KEY, discordId,
                                     oldWallet, newWallet)
        IN  /\ Waiting
            /\ Wallet' = out.store
            /\ last' = HttpRequest("replace0", header, discordId, oldWallet,
                                   newWallet, out)
            /\ UNCHANGED <<API_KEY, adds, procs>>

\* part_001 exits at start when API_KEY is not set.
PostWhitelist1 ==
    \E header \in Headers :
      \E discordId \in Body(authenticate1(header, API_KEY), Users),
         walletAddress \in Body(authenticate1(header, API_KEY), Addresses) :
        LET out == postWhitelist1(Wallet, header, API_KEY, discordId, walletAddress)
        IN  /\ Waiting
            /\ API_KEY # undefined
            /\ InBounds(out.store)
            /\ Wallet' = out.store
            /\ last' = HttpRequest("post1", header, discordId, walletAddress,
                                   undefined, out)
            /\ UNCHANGED <<API_KEY, adds, procs>>

ReplaceWhitelist1 ==
    \E header \in Headers :
      \E discordId \in Body(authenticate1(header, API_KEY), Users),
         oldWallet \in Body(authenticate1(header, API_KEY), Addresses),
         newWallet \in Body(authenticate1(header, API_KEY), Addresses) :
        LET out == replaceWhitelist1(Wallet, header, API_KEY, discordId,
                                     oldWallet, newWallet)
        IN  /\ Waiting
            /\ API_KEY # undefined
            /\ Wallet' = out.store
            /\ last' = HttpRequest("replace1", header, discordId, oldWallet,
                                   newWallet, out)
            /\ UNCHANGED <<API_KEY, adds, procs>>

ExportWhitelist0 ==
    \E header \in Headers :
        LET res == exportWhitelist0(Wallet, header, API_KEY)
        IN  /\ Waiting
            /\ last' = [HttpRequest("export0", header, undefined, undefined,
                                    undefined, Outcome(res.reply, Wallet, 0, 0))
                            EXCEPT !.csv = res.csv]
            /\ UNCHANGED <<Wallet, API_KEY, adds, procs>>

ExportWhitelist1 ==
    \E header \in Headers :
        LET res == exportWhitelist1(Wallet, header, API_KEY)
        IN  /\ Waiting
            /\ API_KEY # undefined
            /\ last' = [HttpRequest("export1", header, undefined, undefined,
                                    undefined, Outcome(res.reply, Wallet, 0, 0))
                            EXCEPT !.csv = res.csv]
            /\ UNCHANGED <<Wallet, API_KEY, adds, procs>>

NextApi ==
    \/ AddWallet
    \/ CheckWallet
    \/ ReplaceWallet
    \/ IncreaseWhiteSlots
    \/ ExportList
    \/ PostWhitelist0
    \/ ReplaceWhitelist0
    \/ PostWhitelist1
    \/ ReplaceWhitelist1
    \/ ExportWhitelist0
    \/ ExportWhitelist1
    \/ Return

SpecApi == InitApi /\ [][NextApi]_vars

\* The companion server on a collection whose limits the admin command
\* raises: the routes, and /increasewhiteslots of the bot.
NextServer ==
    \/ PostWhitelist0
    \/ ReplaceWhitelist0
    \/ ExportWhitelist0
    \/ PostWhitelist1
    \/ ReplaceWhitelist1
    \/ ExportWhitelist1
    \/ IncreaseWhiteSlots
    \/ Return

SpecServer == InitApi /\ [][NextServer]_vars

(***************************************************************************)
(* Interleaved handlers.  A handler of the bot gives way at each await:    *)
(* between the step that reads the collection and the step that writes it  *)
(* the steps of another handler may run.  A step is one store call with    *)
(* the synchronous code that follows it.  The callers hold the role their  *)
(* command needs and send valid options; a write the store rejects throws  *)
(* and the catch of the interaction handler replies the internal error.    *)
(***************************************************************************)

\* The documents a find returns: each with the _id it is saved under.
Fetched(s, idxs) ==
    [j \in 1..Len(idxs) |->
        [idx |-> idxs[j],
         discordId |-> s[idxs[j]].discordId,
         walletAddress |-> s[idxs[j]].walletAddress,
         listType |-> s[idxs[j]].listType,
         registeredViaCode |-> s[idxs[j]].registeredViaCode,
         maxWhitelistEntries |-> s[idxs[j]].maxWhitelistEntries]]

\* The _ids of the documents matching {discordId, listType}, in store order.
RECURSIVE IdxsFrom(_, _, _, _)
IdxsFrom(s, discordId, listType, i) ==
    IF i > Len(s) THEN <<>>
    ELSE IF s[i].discordId = discordId /\ s[i].listType = listType
    THEN <<i>> \o IdxsFrom(s, discordId, listType, i + 1)
    ELSE IdxsFrom(s, discordId, listType, i + 1)

\* await Wallet.find({discordId, listType})
find(s, discordId, listType) == Fetched(s, IdxsFrom(s, discordId, listType, 1))

\* Every query of these handlers filters on discordId and listType, so
\* handlers for different owners or lists touch disjoint documents: the
\* interleavings are those of the requests about one owner on the list that
\* has the slot limit, with addresses a user would submit.
Owners == {"u1"}
Limited == {"whitelist"}
Submitted == Addresses \ {"NONE"}

\* The increments a valid /increasewhiteslots carries.
ValidDeltas == {d \in Deltas : d > 0}

\* Handlers in progress that are about to create a document.
Creating == {p \in Procs : procs[p].pc \in {"add_create", "inc_create"}}

\* A handler that may create a document starts while the collection has room.
Room == Len(Wallet) + Cardinality(Creating) < MaxRaceDocs

\* The handler of the slot ends with the reply; its options and the
\* documents it fetched are of no use any more.
Done(p, reply) ==
    [Idle EXCEPT !.pc = "done", !.op = procs[p].op,
                 !.userId = procs[p].userId, !.oldMax = procs[p].oldMax,
                 !.newMax = procs[p].newMax, !.reply = reply]

\* addWallet up to the result of Wallet.find
AddFind(p) ==
    \E userId \in Owners, wallet \in Submitted, listType \in Limited :
        /\ procs[p].pc = "idle"
        /\ Room
        /\ procs' = [procs EXCEPT ![p] =
                        [Idle EXCEPT !.pc = "add_create", !.op = "add",
                                     !.userId = userId, !.wallet = wallet,
                                     !.listType = listType,
                                     !.docs = find(Wallet, userId, listType)]]
        /\ UNCHANGED <<Wallet, API_KEY, last, adds>>

\* addWallet from the checks on the fetched documents to Wallet.create
AddCreate(p) ==
    LET h == procs[p]
        currentMax == currentMaxOf(h.docs)
    IN  /\ h.pc = "add_create"
        /\ IF alreadyUsedIn(h.docs, h.wallet)
           THEN procs' = [procs EXCEPT ![p] = Done(p, "DuplicateEntry")]
                /\ UNCHANGED Wallet
           ELSE IF atLimit(h.listType, h.docs, currentMax)
           THEN procs' = [procs EXCEPT ![p] = Done(p, "SlotLimitExceeded")]
                /\ UNCHANGED Wallet
           ELSE \/ /\ Wallet' = Append(Wallet, NewDoc(h.userId, h.wallet,
                                                       h.listType, currentMax))
                   /\ procs' = [procs EXCEPT ![p] = Done(p, "ok")]
                \/ /\ procs' = [procs EXCEPT ![p] = Done(p, "InternalError")]
                   /\ UNCHANGED Wallet
        /\ UNCHANGED <<API_KEY, last, adds>>

\* increasewhiteslots up to the result of Wallet.find
IncFind(p) ==
    \E targetId \in Owners, slotsToAdd \in ValidDeltas :
        LET userDocs == find(Wallet, targetId, "whitelist")
            oldMax == IF Len(userDocs) = 0 THEN 1
                      ELSE userDocs[1].maxWhitelistEntries
        IN  /\ procs[p].pc = "idle"
            /\ oldMax + slotsToAdd <= MaxSlots
            /\ Len(userDocs) = 0 => Room
            /\ procs' = [procs EXCEPT ![p] =
                            [Idle EXCEPT
                                !.pc = IF Len(userDocs) = 0 THEN "inc_create"
                                       ELSE "inc_save",
                                !.op = "increase", !.userId = targetId,
                                !.listType = "whitelist",
                                !.slots = slotsToAdd, !.docs = userDocs,
                                !.oldMax = oldMax,
                                !.newMax = oldMax + slotsToAdd]]
            /\ UNCHANGED <<Wallet, API_KEY, last, adds>>

\* increasewhiteslots, no document fetched: the placeholder is created
IncCreate(p) ==
    LET h == procs[p]
    IN  /\ h.pc = "inc_create"
        /\ \/ /\ Wallet' = Append(Wallet, NewDoc(h.userId, "NONE", "whitelist",
                                                  h.newMax))
              /\ procs' = [procs EXCEPT ![p] = Done(p, "created")]
           \/ /\ procs' = [procs EXCEPT ![p] = Done(p, "InternalError")]
              /\ UNCHANGED Wallet
        /\ UNCHANGED <<API_KEY, last, adds>>

\* Variant: the write reaches every document of the owner on the list.
saveMaxOfOwner(s, idx, newMax) ==
    [i \in 1..Len(s) |->
        IF s[i].discordId = s[idx].discordId /\ s[i].listType = s[idx].listType
        THEN [s[i] EXCEPT !.maxWhitelistEntries = newMax]
        ELSE s[i]]

\* doc.maxWhitelistEntries = newMax; await doc.save()
saveMaxWhitelistEntries(s, idx, newMax) ==
    [s EXCEPT ![idx].maxWhitelistEntries = newMax]

\* increasewhiteslots, one turn of the loop: doc.save() of the next fetched
\* document writes its maxWhitelistEntries under its _id; saved counts the
\* documents written so far.  A save that throws ends the loop and the
\* handler: the catch replies and nothing is written back or tried again.
IncSave(p) ==
    LET h == procs[p]
        doc == h.docs[h.saved + 1]
    IN  /\ h.pc = "inc_save"
        /\ \/ /\ Wallet' = saveMaxWhitelistEntries(Wallet, doc.idx, h.newMax)
              /\ procs' = [procs EXCEPT ![p] =
                              IF h.saved + 1 = Len(h.docs)
                              THEN Done(p, "updated")
                              ELSE [h EXCEPT !.saved = @ + 1]]
           \/ /\ procs' = [procs EXCEPT ![p] =
                              [Done(p, "InternalError") EXCEPT
                                  !.docs = h.docs, !.saved = h.saved]]
              /\ UNCHANGED Wallet
        /\ UNCHANGED <<API_KEY, last, adds>>

\* Variant: the write removes the document.
saveRemoves(s, idx, newWallet) ==
    SubSeq(s, 1, idx - 1) \o SubSeq(s, idx + 1, Len(s))

\* doc.walletAddress = newWallet; await doc.save()
saveWalletAddress(s, idx, newWallet) ==
    [s EXCEPT ![idx].walletAddress = newWallet]

\* replaceWallet up to the result of the first Wallet.findOne
ReplaceFind(p) ==
    \E userId \in Owners, oldWallet \in Submitted, newWallet \in Submitted,
       listType \in Limited :
        LET doc == FindOneIdx(Wallet, userId, oldWallet, listType)
            h == [Idle EXCEPT !.op = "replace", !.userId = userId,
                              !.wallet = oldWallet, !.newWallet = newWallet,
                              !.listType = listType]
        IN  /\ procs[p].pc = "idle"
            /\ procs' = [procs EXCEPT ![p] =
                            IF doc = 0
                            THEN [Idle EXCEPT !.pc = "done", !.op = "replace",
                                              !.userId = userId,
                                              !.reply = "EntryNotFound"]
                            ELSE [h EXCEPT !.pc = "replace_check",
                                           !.docs = Fetched(Wallet, <<doc>>)]]
            /\ UNCHANGED <<Wallet, API_KEY, last, adds>>

\* replaceWallet, the second Wallet.findOne: the new address must be unused
ReplaceCheck(p) ==
    LET h == procs[p]
        duplicate == FindOneIdx(Wallet, h.userId, h.newWallet, h.listType)
    IN  /\ h.pc = "replace_check"
        /\ procs' = [procs EXCEPT ![p] =
                        IF duplicate # 0 THEN Done(p, "DuplicateEntry")
                        ELSE [h EXCEPT !.pc = "replace_save"]]
        /\ UNCHANGED <<Wallet, API_KEY, last, adds>>

\* replaceWallet, doc.save() writes walletAddress under the _id of the
\* document found first
ReplaceSave(p) ==
    LET h == procs[p]
    IN  /\ h.pc = "replace_save"
        /\ \/ /\ Wallet' = saveWalletAddress(Wallet, h.docs[1].idx,
                                             h.newWallet)
              /\ procs' = [procs EXCEPT ![p] = Done(p, "ok")]
           \/ /\ procs' = [procs EXCEPT ![p] = Done(p, "InternalError")]
              /\ UNCHANGED Wallet
        /\ UNCHANGED <<API_KEY, last, adds>>

\* The reply is sent and the handler returns; the slot is free again.
Finish(p) ==
    /\ procs[p].pc = "done"
    /\ procs' = [procs EXCEPT ![p] = Idle]
    /\ UNCHANGED <<Wallet, API_KEY, last, adds>>

\* Adds and increases, the handlers that read and write the slot limit.
NextConc ==
    \E p \in Procs :
        \/ AddFind(p)
        \/ AddCreate(p)
        \/ IncFind(p)
        \/ IncCreate(p)
        \/ IncSave(p)
        \/ Finish(p)

SpecConc == Init /\ [][NextConc]_vars

\* One handler at a time, its steps in a row, with writes that may fail.
NextAlone ==
    \/ AddFind(1)
    \/ AddCreate(1)
    \/ IncFind(1)
    \/ IncCreate(1)
    \/ IncSave(1)
    \/ Finish(1)

SpecAlone == Init /\ [][NextAlone]_vars

\* Every handler of the bot that writes the collection.
NextWriters ==
    \/ NextConc
    \/ \E p \in Procs :
           \/ ReplaceFind(p)
           \/ ReplaceCheck(p)
           \/ ReplaceSave(p)

\* Another owner has registered on the other list before.
InitWriters ==
    /\ Wallet = <<NewDoc("u2", "a", "freemint", 1)>>
    /\ API_KEY = "k1"
    /\ last = NoRequest
    /\ adds = [u \in Users |-> 0]
    /\ procs = [p \in Procs |-> Idle]

SpecWriters == InitWriters /\ [][NextWriters]_vars

(***************************************************************************)
(* The single-wallet bot of src/unnamed/part_001: one command, 'whitelist', *)
(* on a collection of {discordId, walletAddress} documents with a unique   *)
(* index on discordId.  Its handlers interleave at the awaits like those   *)
(* of the other bot.  An address is the sequence of its characters.        *)
(***************************************************************************)

\* The length the pattern asks of the hexadecimal part.
HexLength == 40

\* [a-fA-F0-9]
HexChars ==
    {"0", "1", "2", "3", "4", "5", "6", "7", "8", "9",
     "a", "b", "c", "d", "e", "f", "A", "B", "C", "D", "E", "F"}

\* The number of characters of the class the text starts with.
RECURSIVE Leading(_, _)
Leading(text, class) ==
    IF Len(text) > 0 /\ text[1] \in class
    THEN 1 + Leading(Tail(text), class)
    ELSE 0

\* /^0x[a-fA-F0-9]{40}$/.test(walletAddress): the prefix, then 40 characters
\* of the class, then the end of the text.
test(walletAddress) ==
    /\ Len(walletAddress) >= 2
    /\ walletAddress[1] = "0" /\ walletAddress[2] = "x"
    /\ LET rest == SubSeq(walletAddress, 3, Len(walletAddress))
       IN  Leading(rest, HexChars) >= HexLength /\ Len(rest) = HexLength

\* n times the character.
Repeat(char, n) == [i \in 1..n |-> char]

\* The addresses submitted: a well-formed one in lower case and one in mixed
\* case, and malformed ones: a character short, a character long, a
\* character outside the class, the prefix in upper case, a line break at
\* the end.
Wallets ==
    {<<"0", "x">> \o Repeat("a", HexLength),
     <<"0", "x">> \o Repeat("F", HexLength - 1) \o <<"9">>,
     <<"0", "x">> \o Repeat("a", HexLength - 1),
     <<"0", "x">> \o Repeat("a", HexLength + 1),
     <<"0", "x">> \o Repeat("a", HexLength - 1) \o <<"g">>,
     <<"0", "X">> \o Repeat("a", HexLength),
     <<"0", "x">> \o Repeat("a", HexLength) \o <<"\n">>}

\* role.name.toLowerCase() of the role names of the guild.
toLowerCase(name) ==
    CASE name = "Whitelist" -> "whitelist"
      [] name = "WHITELIST" -> "whitelist"
      [] name = "Member" -> "member"
      [] OTHER -> name

\* The names of the roles a member may hold.
RoleNames == {"whitelist", "Whitelist", "Member"}
Holders == {{}} \cup {{n} : n \in RoleNames}

\* user.roles.cache.some(role => role.name.toLowerCase() === 'whitelist')
hasWhitelistRole(roles) == \E name \in roles : toLowerCase(name) = "whitelist"

\* Wallet.findOne({ discordId: user.id }): index of the first match, 0 for
\* null.
existingEntry(s, discordId) ==
    LET m == {i \in 1..Len(s) : s[i].discordId = discordId}
    IN  IF m = {} THEN 0 ELSE Min(m)

\* Variant: the collection has no unique index.
duplicateKeyNever(s, discordId) == FALSE

\* The unique index on discordId rejects the insert (E11000).
duplicateKey(s, discordId) == \E i \in 1..Len(s) : s[i].discordId = discordId

\* An address the handler goes on to test is read only by a caller who
\* passed the role check.
Submissions(roles) == IF hasWhitelistRole(roles) THEN Wallets ELSE {undefined}

\* 'whitelist' up to the save: the role check, Wallet.findOne and the checks
\* on what it found, in the order of the code.
SubmitFind(p) ==
    \E userId \in Users, roles \in Holders :
      \E walletAddress \in Submissions(roles) :
        LET h == [Idle EXCEPT !.op = "whitelist", !.userId = userId,
                              !.wallet = walletAddress, !.roles = roles]
            reply == IF ~hasWhitelistRole(roles) THEN "NoRole"
                     ELSE IF existingEntry(Wallet, userId) # 0
                     THEN "AlreadySubmitted"
                     ELSE IF ~test(walletAddress) THEN "InvalidFormat"
                     ELSE "none"
        IN  /\ procs[p].pc = "idle"
            /\ procs' = [procs EXCEPT ![p] =
                            IF reply = "none" THEN [h EXCEPT !.pc = "save"]
                            ELSE [h EXCEPT !.pc = "done", !.reply = reply]]
            /\ UNCHANGED <<Wallet, API_KEY, last, adds>>

\* new Wallet({ discordId: user.id, walletAddress }).save() and the reply of
\* the try or of the catch.
SubmitSave(p) ==
    LET h == procs[p]
    IN  /\ h.pc = "save" /\ h.op = "whitelist"
        /\ IF duplicateKey(Wallet, h.userId)
           THEN /\ UNCHANGED Wallet
                /\ procs' = [procs EXCEPT ![p] = Done(p, "Error")]
           ELSE /\ Wallet' = Append(Wallet, [discordId |-> h.userId,
                                             walletAddress |-> h.wallet])
                /\ procs' = [procs EXCEPT ![p] = Done(p, "ok")]
        /\ UNCHANGED <<API_KEY, last, adds>>

NextSingle == \E p \in Procs : SubmitFind(p) \/ SubmitSave(p) \/ Finish(p)

SpecSingle == Init /\ [][NextSingle]_vars

(***************************************************************************)
(* Properties.                                                             *)
(***************************************************************************)

\* Indexes of the Entries of an owner on a list.
OwnerDocs(s, u, k) ==
    {i \in 1..Len(s) : s[i].discordId = u /\ s[i].listType = k}

\* The owner holds the address on the list.
Holds(s, u, w, k) ==
    \E i \in OwnerDocs(s, u, k) : s[i].walletAddress = w

\* The caller of the request holds the role of the request's list.
Authorized(r) == RoleOf(r.listType) \in r.member

\* C1: all Entries sharing (ownerId, listKind) carry the same maxSlots, in
\* every state reached by commands executed one at a time.
C1_ConsistentMaxSlots ==
    \A i, j \in 1..Len(Wallet) :
        (Wallet[i].discordId = Wallet[j].discordId
            /\ Wallet[i].listType = Wallet[j].listType)
        => Wallet[i].maxWhitelistEntries = Wallet[j].maxWhitelistEntries

\* An increase has rewritten the limit of an owner holding two Entries.
C1_Witness ==
    /\ last.op = "increase" /\ last.reply = "updated"
    /\ Cardinality(OwnerDocs(Wallet, last.userId, "whitelist")) = 2
    /\ C1_ConsistentMaxSlots

\* C2 as stated: for every owner and every list kind, whitelist and freemint,
\* the number of Entries is at most the maxSlots those Entries carry.
C2_SlotBoundEveryList ==
    \A u \in Users, k \in ListTypes :
        \A i \in OwnerDocs(Wallet, u, k) :
            Cardinality(OwnerDocs(Wallet, u, k)) <= Wallet[i].maxWhitelistEntries

\* C2, amended: for every owner the number of whitelist Entries is at most
\* the maxSlots those Entries carry (the freemint list has no slot limit).
C2_SlotBoundWhitelist ==
    \A u \in Users :
        \A i \in OwnerDocs(Wallet, u, "whitelist") :
            Cardinality(OwnerDocs(Wallet, u, "whitelist"))
                <= Wallet[i].maxWhitelistEntries

\* An owner with two whitelist Entries at limit 2 has had an add refused.
C2_Witness ==
    /\ last.op = "add" /\ last.reply = "SlotLimitExceeded"
    /\ Cardinality(OwnerDocs(Wallet, last.userId, "whitelist")) = 2
    /\ \A i \in OwnerDocs(Wallet, last.userId, "whitelist") :
          Wallet[i].maxWhitelistEntries = 2

\* C3: for an owner at limit N, however N was reached, the N-th add of a
\* distinct address succeeds and the (N+1)-th fails with SlotLimitExceeded:
\* an add counted k-th among the owner's successful adds has k <= N, and an
\* add is refused for the limit only after N adds have succeeded.
C3_NthAddSucceeds ==
    (last.op = "add" /\ last.listType = "whitelist"
        /\ last.reply \in {"ok", "SlotLimitExceeded"})
    => \A i \in OwnerDocs(Wallet, last.userId, "whitelist") :
          /\ last.reply = "ok"
                => adds[last.userId] <= Wallet[i].maxWhitelistEntries
          /\ last.reply = "SlotLimitExceeded"
                => adds[last.userId] >= Wallet[i].maxWhitelistEntries

\* C4: an add of an (owner, address, list) already held replies
\* DuplicateEntry and leaves the store unchanged, also when the owner is at
\* the limit; a successful add is the one that makes the address held.
C4_DuplicateAdd ==
    [][(last'.op = "add" /\ Authorized(last'))
        => /\ Holds(Wallet, last'.userId, last'.wallet, last'.listType)
                => (last'.reply = "DuplicateEntry" /\ Wallet' = Wallet)
           /\ last'.reply = "DuplicateEntry"
                => Holds(Wallet, last'.userId, last'.wallet, last'.listType)
           /\ last'.reply = "ok"
                => /\ ~Holds(Wallet, last'.userId, last'.wallet, last'.listType)
                   /\ Holds(Wallet', last'.userId, last'.wallet, last'.listType)
                   /\ Len(Wallet') = Len(Wallet) + 1]_vars

\* A duplicate add by an owner who is at the whitelist limit.
C4_Witness ==
    /\ last.op = "add" /\ last.reply = "DuplicateEntry"
    /\ last.listType = "whitelist"
    /\ \A i \in OwnerDocs(Wallet, last.userId, "whitelist") :
          Cardinality(OwnerDocs(Wallet, last.userId, "whitelist"))
              >= Wallet[i].maxWhitelistEntries

\* C5: no two Entries share all of (ownerId, address, listKind), whatever
\* the sequence of commands and of HTTP requests.
C5_UniqueEntries ==
    \A i, j \in 1..Len(Wallet) :
        (/\ Wallet[i].discordId = Wallet[j].discordId
         /\ Wallet[i].walletAddress = Wallet[j].walletAddress
         /\ Wallet[i].listType = Wallet[j].listType)
        => i = j

\* C6: a replace whose (owner, oldAddress, list) matches no Entry replies
\* EntryNotFound and leaves every Entry unchanged, and EntryNotFound is
\* replied in that case only.
C6_ReplaceNotFound ==
    [][(last'.op = "replace" /\ Authorized(last'))
        => /\ ~Holds(Wallet, last'.userId, last'.wallet, last'.listType)
                => (last'.reply = "EntryNotFound" /\ Wallet' = Wallet)
           /\ last'.reply = "EntryNotFound"
                => ~Holds(Wallet, last'.userId, last'.wallet, last'.listType)]_vars

\* The old address is held by another owner on the same list and by the
\* caller on the other list, and the replace was refused.
C6_Witness ==
    /\ last.op = "replace" /\ last.reply = "EntryNotFound"
    /\ \E i \in 1..Len(Wallet) :
          /\ Wallet[i].walletAddress = last.wallet
          /\ Wallet[i].discordId # last.userId
          /\ Wallet[i].listType = last.listType
    /\ \E i \in 1..Len(Wallet) :
          /\ Wallet[i].walletAddress = last.wallet
          /\ Wallet[i].discordId = last.userId
          /\ Wallet[i].listType # last.listType

\* C7: a replace of an Entry the owner holds, to an address the same owner
\* already holds on the same list (the old address included), replies
\* DuplicateEntry and leaves the store unchanged; when the owner does not
\* hold the new address the replace succeeds, whoever else holds it.
C7_ReplaceDuplicate ==
    [][(/\ last'.op = "replace" /\ Authorized(last')
        /\ Holds(Wallet, last'.userId, last'.wallet, last'.listType))
        => IF Holds(Wallet, last'.userId, last'.newWallet, last'.listType)
           THEN last'.reply = "DuplicateEntry" /\ Wallet' = Wallet
           ELSE last'.reply = "ok"]_vars

\* A replace refused because the owner holds the new address in another Entry.
C7_Witness ==
    /\ last.op = "replace" /\ last.reply = "DuplicateEntry"
    /\ last.wallet # last.newWallet
    /\ Holds(Wallet, last.userId, last.wallet, last.listType)
    /\ Holds(Wallet, last.userId, last.newWallet, last.listType)

\* C8: a successful replace changes the address of the one matched Entry
\* and nothing else: its other fields, every other Entry and the number of
\* Entries are unchanged.
C8_ReplaceFrame ==
    [][(last'.op = "replace" /\ last'.reply = "ok")
        => /\ Len(Wallet') = Len(Wallet)
           /\ \E i \in OwnerDocs(Wallet, last'.userId, last'.listType) :
                /\ Wallet[i].walletAddress = last'.wallet
                /\ Wallet'[i].walletAddress = last'.newWallet
                /\ Wallet'[i].discordId = Wallet[i].discordId
                /\ Wallet'[i].listType = Wallet[i].listType
                /\ Wallet'[i].maxWhitelistEntries = Wallet[i].maxWhitelistEntries
                /\ Wallet'[i].registeredViaCode = Wallet[i].registeredViaCode
                /\ \A j \in 1..Len(Wallet) : j # i => Wallet'[j] = Wallet[j]
           /\ \A u \in Users, k \in ListTypes :
                Cardinality(OwnerDocs(Wallet', u, k))
                    = Cardinality(OwnerDocs(Wallet, u, k))]_vars

\* A successful replace of an Entry that carries a raised limit, beside
\* another Entry.
C8_Witness ==
    /\ last.op = "replace" /\ last.reply = "ok"
    /\ Len(Wallet) = 2
    /\ \E i \in OwnerDocs(Wallet, last.userId, last.listType) :
          /\ Wallet[i].walletAddress = last.newWallet
          /\ Wallet[i].maxWhitelistEntries >= 2

\* C9: an increase by an admin with d > 0 on an owner without whitelist
\* Entries appends one placeholder Entry "NONE" with maxSlots 1 + d; on an
\* owner with k >= 1 Entries and limit L it sets maxSlots to L + d on all k,
\* keeps the count and replies with L and L + d; every other Entry is
\* unchanged.
C9_Increase ==
    [][(/\ last'.op = "increase" /\ ADMIN_ROLE_ID \in last'.member
        /\ last'.slots > 0)
        => LET u == last'.userId
               d == last'.slots
               own == OwnerDocs(Wallet, u, "whitelist")
           IN  IF own = {}
               THEN /\ last'.reply = "created"
                    /\ Wallet' = Append(Wallet,
                          [discordId |-> u, walletAddress |-> "NONE",
                           listType |-> "whitelist", registeredViaCode |-> FALSE,
                           maxWhitelistEntries |-> 1 + d])
               ELSE LET L == Wallet[Min(own)].maxWhitelistEntries
                    IN  /\ last'.reply = "updated"
                        /\ last'.oldMax = L
                        /\ last'.newMax = L + d
                        /\ Len(Wallet') = Len(Wallet)
                        /\ \A i \in 1..Len(Wallet) :
                              IF i \in own
                              THEN Wallet'[i] =
                                     [Wallet[i] EXCEPT !.maxWhitelistEntries = L + d]
                              ELSE Wallet'[i] = Wallet[i]]_vars

\* An increase over an owner holding two Entries.
C9_Witness ==
    /\ last.op = "increase" /\ last.reply = "updated"
    /\ last.newMax = last.oldMax + last.slots
    /\ Cardinality(OwnerDocs(Wallet, last.userId, "whitelist")) = 2
    /\ \A i \in OwnerDocs(Wallet, last.userId, "whitelist") :
          Wallet[i].maxWhitelistEntries = last.newMax

\* C10: an increase by an admin with delta <= 0 replies InvalidArgument, and
\* no increase with delta <= 0 changes the store.
C10_IncreaseInvalid ==
    [][(last'.op = "increase" /\ last'.slots <= 0)
        => /\ Wallet' = Wallet
           /\ ADMIN_ROLE_ID \in last'.member => last'.reply = "InvalidArgument"]_vars

\* An increase by zero for an owner without Entries was refused, and no
\* placeholder exists.
C10_Witness ==
    /\ last.op = "increase" /\ last.reply = "InvalidArgument"
    /\ last.slots = 0
    /\ OwnerDocs(Wallet, last.userId, "whitelist") = {}

\* C11: an add or replace by a caller without the role of the list, and an
\* increase or export by a caller without the admin role, replies
\* PermissionDenied and leaves the store unchanged; the role of one list does
\* not open the other; PermissionDenied is replied in these cases only.
C11_Gating ==
    [][LET denied ==
             \/ last'.op \in {"add", "replace"} /\ ~Authorized(last')
             \/ last'.op \in {"increase", "export"}
                    /\ ADMIN_ROLE_ID \notin last'.member
       IN  /\ denied => (last'.reply = "PermissionDenied" /\ Wallet' = Wallet)
           /\ last'.reply = "PermissionDenied" => denied]_vars

\* A holder of the whitelist role was refused on the freemint list while the
\* collection holds an Entry.
C11_Witness ==
    /\ last.op = "add" /\ last.listType = "freemint"
    /\ last.member = {WHITELIST_ROLE_ID}
    /\ last.reply = "PermissionDenied"
    /\ Len(Wallet) > 0

\* The maxSlots values carried by the owner's Entries of the list.
LimitsOf(s, u, k) == {s[i].maxWhitelistEntries : i \in OwnerDocs(s, u, k)}

\* An authorized /addwhitelist of the user is the request just answered.
WhitelistAdd(r, u) ==
    /\ r.op = "add" /\ r.userId = u /\ r.listType = "whitelist"
    /\ Authorized(r)

\* C14: the end-to-end sequence on the whitelist.  For an owner with no
\* Entries an add succeeds and leaves 1 Entry with limit 1; with 1 Entry of
\* limit 1 an add of another address is refused with SlotLimitExceeded and
\* the store is unchanged; an admin increase by 2 then rewrites the limit
\* from 1 to 3; with 1 Entry of limit 3 an add of another address succeeds
\* and leaves 2 Entries with limit 3.
C14_EndToEnd ==
    [][\A u \in Users :
        LET before == OwnerDocs(Wallet, u, "whitelist")
            after  == OwnerDocs(Wallet', u, "whitelist")
            one(m) == /\ Cardinality(before) = 1
                      /\ LimitsOf(Wallet, u, "whitelist") = {m}
                      /\ ~Holds(Wallet, u, last'.wallet, "whitelist")
        IN  /\ (WhitelistAdd(last', u) /\ before = {})
                => /\ last'.reply = "ok"
                   /\ Cardinality(after) = 1
                   /\ LimitsOf(Wallet', u, "whitelist") = {1}
                   /\ Holds(Wallet', u, last'.wallet, "whitelist")
            /\ (WhitelistAdd(last', u) /\ one(1))
                => /\ last'.reply = "SlotLimitExceeded"
                   /\ Wallet' = Wallet
            /\ (/\ last'.op = "increase" /\ last'.userId = u
                /\ ADMIN_ROLE_ID \in last'.member /\ last'.slots = 2
                /\ Cardinality(before) = 1
                /\ LimitsOf(Wallet, u, "whitelist") = {1})
                => /\ last'.reply = "updated"
                   /\ last'.oldMax = 1 /\ last'.newMax = 3
                   /\ after = before
                   /\ LimitsOf(Wallet', u, "whitelist") = {3}
            /\ (WhitelistAdd(last', u) /\ one(3))
                => /\ last'.reply = "ok"
                   /\ Cardinality(after) = 2
                   /\ LimitsOf(Wallet', u, "whitelist") = {3}
                   /\ Holds(Wallet', u, last'.wallet, "whitelist")]_vars

\* The sequence has run to its end: the second successful add of u1 has
\* stored b next to a under the limit 3.
C14_Witness ==
    /\ WhitelistAdd(last, "u1") /\ last.reply = "ok" /\ last.wallet = "b"
    /\ adds["u1"] = 2
    /\ Len(Wallet) = 2
    /\ Wallet[1].walletAddress = "a" /\ Wallet[2].walletAddress = "b"
    /\ LimitsOf(Wallet, "u1", "whitelist") = {3}

\* C17: a check of (address, list) answers present exactly when some owner
\* holds the address on that list, whatever roles the caller has; an address
\* held on the other list only is answered absent; the store is unchanged.
C17_Check ==
    [][last'.op = "check" =>
        LET w == last'.wallet
            k == last'.listType
            onList(l) == \E u \in Users : Holds(Wallet, u, w, l)
        IN  /\ last'.reply \in {"present", "absent"}
            /\ last'.reply = "present" <=> onList(k)
            /\ (~onList(k) /\ \E l \in ListTypes \ {k} : onList(l))
                   => last'.reply = "absent"
            /\ Wallet' = Wallet]_vars

\* A caller without any role asked for an address another owner holds on the
\* whitelist and on that list only: present on the whitelist.
C17_Witness ==
    /\ last.op = "check" /\ last.member = {}
    /\ last.wallet = "a" /\ last.listType = "whitelist"
    /\ last.reply = "present"
    /\ Holds(Wallet, "u2", "a", "whitelist")
    /\ \A u \in Users : ~Holds(Wallet, u, "a", "freemint")

\* The requests of the HTTP API.
HttpOps == {"post0", "replace0", "export0", "post1", "replace1", "export1"}

\* C15: a route answers something other than 403 only to a request that
\* carries an api-key header equal to the configured value, whether or not
\* the header is present and whether or not the value is configured.
C15_Authentication ==
    (last.op \in HttpOps /\ last.reply # "403")
        => (last.header # undefined /\ last.header = API_KEY)

\* C16: an authenticated POST /whitelist with both fields answers 400 and
\* leaves the store unchanged when an Entry with that (discordId,
\* walletAddress) exists, and otherwise appends exactly one Entry with those
\* values and answers 200; a request with the configured key is not refused.
C16_PostWhitelist ==
    [][last'.op \in {"post0", "post1"} =>
        LET d == last'.userId
            w == last'.wallet
            exists == \E i \in 1..Len(Wallet) :
                          Wallet[i].discordId = d /\ Wallet[i].walletAddress = w
        IN  /\ (last'.header # undefined /\ last'.header = API_KEY)
                   => last'.reply # "403"
            /\ (last'.reply # "403" /\ d # undefined /\ w # undefined)
                   => IF exists
                      THEN last'.reply = "400" /\ Wallet' = Wallet
                      ELSE /\ last'.reply = "200"
                           /\ Len(Wallet') = Len(Wallet) + 1
                           /\ SubSeq(Wallet', 1, Len(Wallet)) = Wallet
                           /\ Wallet'[Len(Wallet')].discordId = d
                           /\ Wallet'[Len(Wallet')].walletAddress = w]_vars

\* A POST with the configured key was answered 400 for an Entry that exists,
\* after an earlier POST had created an Entry.
C16_Witness ==
    /\ last.op = "post1" /\ last.header = API_KEY /\ last.reply = "400"
    /\ \E i \in 1..Len(Wallet) :
           /\ Wallet[i].discordId = last.userId
           /\ Wallet[i].walletAddress = last.wallet
           /\ Wallet[i].listType = undefined

\* The pieces of a text between the separators.
RECURSIVE SplitOn(_, _)
SplitOn(text, sep) ==
    LET at == {i \in 1..Len(text) : text[i] = sep}
    IN  IF at = {} THEN <<text>>
        ELSE <<SubSeq(text, 1, Min(at) - 1)>>
                 \o SplitOn(SubSeq(text, Min(at) + 1, Len(text)), sep)

\* The lines of a text; a line break at the end opens no further line.
Lines(text) ==
    LET pieces == SplitOn(text, "\n")
    IN  IF pieces[Len(pieces)] = <<>>
        THEN SubSeq(pieces, 1, Len(pieces) - 1)
        ELSE pieces

\* The value of the Entry under a column of the header.
Column(doc, name) ==
    CASE name = "Discord ID" -> doc.discordId
      [] name = "Wallet Address" -> doc.walletAddress
      [] name = "Registered Via Code" ->
             IF doc.registeredViaCode THEN "Yes" ELSE "No"
      [] name = "Max Whitelist Entries" -> ToString(doc.maxWhitelistEntries)

\* The columns each variant declares.
Declared(op) ==
    IF op = "export0" THEN <<"Discord ID", "Wallet Address">>
    ELSE <<"Discord ID", "Wallet Address", "Registered Via Code",
           "Max Whitelist Entries">>

\* The text is one header line and one line per Entry in store order, each
\* the Entry's fields comma-joined in the order of the header.
Rendered(text, s, op) ==
    LET lines == Lines(text)
    IN  /\ Len(lines) = Len(s) + 1
        /\ SplitOn(lines[1], ",") =
               [j \in 1..Len(Declared(op)) |-> <<Declared(op)[j]>>]
        /\ \A i \in 1..Len(s) :
               SplitOn(lines[i + 1], ",") =
                   [j \in 1..Len(Declared(op)) |-> <<Column(s[i], Declared(op)[j])>>]

\* C18 as stated: an export that passed authentication answers, over a store
\* of n Entries and for every n >= 0, the header line and n lines, and leaves
\* the store unchanged.
C18_ExportEveryN ==
    [][(last'.op \in {"export0", "export1"} /\ last'.reply # "403")
        => /\ last'.reply = "200"
           /\ Rendered(last'.csv, Wallet, last'.op)
           /\ Wallet' = Wallet]_vars

\* C18: an export that passed authentication leaves the store unchanged;
\* over n >= 1 Entries, and over n = 0 in the variant of part_000, it
\* answers the header line and n lines, one per Entry in store order with
\* the fields comma-joined in the header's order; over n = 0 the variant of
\* part_001 answers 404 and sends no table.
C18_Export ==
    [][(last'.op \in {"export0", "export1"} /\ last'.reply # "403")
        => /\ Wallet' = Wallet
           /\ IF last'.op = "export1" /\ Len(Wallet) = 0
              THEN last'.reply = "404" /\ last'.csv = <<>>
              ELSE /\ last'.reply = "200"
                   /\ Rendered(last'.csv, Wallet, last'.op)]_vars

\* The variant of part_001 has sent the header and two lines for two Entries.
C18_Witness ==
    /\ last.op = "export1" /\ last.reply = "200"
    /\ Len(Wallet) = 2
    /\ Len(Lines(last.csv)) = 3
    /\ SplitOn(Lines(last.csv)[3], ",")[2] = <<Wallet[2].walletAddress>>

\* The number of whitelist Entries of the owner beyond the limit an add
\* would read for the owner.
Excess(s, u) ==
    Cardinality(OwnerDocs(s, u, "whitelist"))
        - currentMaxOf(FindByOwner(s, u, "whitelist"))

\* C12: with two handlers in progress at a time, the number of whitelist
\* Entries of an owner never exceeds the limit by more than one.
C12_ExcessAtMostOne ==
    \A u \in Users : Excess(Wallet, u) <= 1

\* Two adds of distinct addresses both fetched the empty list, both passed
\* the limit check and both inserted: 2 Entries under the limit 1.
C12_Witness ==
    /\ \A p \in Procs : procs[p].op = "add" /\ procs[p].reply = "ok"
    /\ Len(Wallet) = 2
    /\ Wallet[1].walletAddress # Wallet[2].walletAddress
    /\ LimitsOf(Wallet, "u1", "whitelist") = {1}
    /\ Excess(Wallet, "u1") = 1

\* The limit the handler read from the documents it fetched.
ReadLimit(h) ==
    IF Len(h.docs) = 0 THEN 1 ELSE h.docs[1].maxWhitelistEntries

\* C13: an add that read the limit an increase for the same owner is about
\* to replace, and that inserts after the increase has fetched the owner's
\* Entries, stores its Entry with the old limit, and the Entry is none of
\* those the increase goes on to rewrite: the owner's Entries end with
\* different maxSlots.
C13_StaleLimit ==
    [][\A p, q \in Procs :
        (/\ procs[p].pc = "add_create" /\ procs'[p].reply = "ok"
         /\ procs[q].pc \in {"inc_save", "inc_create"}
         /\ procs[q].userId = procs[p].userId
         /\ ReadLimit(procs[p]) = procs[q].oldMax)
        => /\ Len(Wallet') = Len(Wallet) + 1
           /\ Wallet'[Len(Wallet')].maxWhitelistEntries = procs[q].oldMax
           /\ procs[q].newMax # procs[q].oldMax
           /\ \A j \in 1..Len(procs'[q].docs) :
                  procs'[q].docs[j].idx # Len(Wallet')]_vars

\* An add and an increase for u1 have both replied, and the Entry the add
\* created carries the limit 2 next to the rewritten Entry's 3.
C13_Witness ==
    /\ \E p, q \in Procs :
           /\ procs[p].op = "add" /\ procs[p].reply = "ok"
           /\ procs[q].op = "increase" /\ procs[q].reply = "updated"
           /\ procs[q].oldMax = 2 /\ procs[q].newMax = 3
    /\ Len(Wallet) = 2
    /\ Wallet[1].maxWhitelistEntries = 3
    /\ Wallet[2].maxWhitelistEntries = 2

\* C19: in every step, interleaved or failing, the number of Entries does
\* not decrease and every Entry stays in the store with its ownerId and its
\* listKind.
C19_NoDeletion ==
    [][/\ Len(Wallet') >= Len(Wallet)
       /\ \A i \in 1..Len(Wallet) :
              /\ Wallet'[i].discordId = Wallet[i].discordId
              /\ Wallet'[i].listType = Wallet[i].listType]_vars

\* A replace has rewritten an Entry in place and a write of another handler
\* has failed; the Entries of both owners are there.
C19_Witness ==
    /\ \E p, q \in Procs :
           /\ procs[p].op = "replace" /\ procs[p].reply = "ok"
           /\ procs[q].reply = "InternalError"
    /\ Len(Wallet) = 3
    /\ Wallet[1].discordId = "u2" /\ Wallet[1].listType = "freemint"
    /\ Wallet[2].discordId = "u1" /\ Wallet[2].listType = "whitelist"

\* C20: after a write of the batch over k >= 2 Entries has failed, with no
\* other handler at work, the handler has ended with the internal-error
\* reply, the Entries written before the failure carry the new maxSlots,
\* the others the value they were fetched with, and when the failure came
\* after the first write and before the last the owner's Entries carry
\* unequal maxSlots.
C20_PartialBatch ==
    \A p \in Procs :
        LET h == procs[p]
            k == Len(h.docs)
        IN  (h.op = "increase" /\ h.reply = "InternalError" /\ k >= 2)
            => /\ h.pc = "done"
               /\ \A j \in 1..k :
                      Wallet[h.docs[j].idx].maxWhitelistEntries =
                          IF j <= h.saved THEN h.newMax
                          ELSE h.docs[j].maxWhitelistEntries
               /\ (1 <= h.saved /\ h.saved < k)
                      => Cardinality(LimitsOf(Wallet, h.userId, "whitelist")) >= 2

\* The batch over the two Entries of u1 failed at the second write: the
\* first carries 3, the second still 2.
C20_Witness ==
    /\ procs[1].op = "increase" /\ procs[1].reply = "InternalError"
    /\ Len(procs[1].docs) = 2 /\ procs[1].saved = 1
    /\ Len(Wallet) = 2
    /\ Wallet[1].maxWhitelistEntries = 3
    /\ Wallet[2].maxWhitelistEntries = 2

\* C21: an increase by d for an owner without whitelist Entries creates the
\* placeholder "NONE" with the limit 1 + d; the placeholder counts as one of
\* the owner's Entries, so an add of a new address succeeds while the owner
\* holds fewer than d other addresses and is refused with SlotLimitExceeded
\* from then on; a check of "NONE" on the whitelist answers present and an
\* export carries the placeholder as the row of its position.
C21_Placeholder ==
    [][\A u \in Users :
        LET before == OwnerDocs(Wallet, u, "whitelist")
            others == {i \in before : Wallet[i].walletAddress # "NONE"}
            placeholder == {i \in before : Wallet[i].walletAddress = "NONE"}
        IN  /\ (/\ last'.op = "increase" /\ last'.userId = u
                /\ ADMIN_ROLE_ID \in last'.member /\ last'.slots > 0
                /\ before = {})
                => /\ last'.reply = "created"
                   /\ last'.newMax = 1 + last'.slots
                   /\ Wallet' = Append(Wallet, NewDoc(u, "NONE", "whitelist",
                                                      1 + last'.slots))
            /\ (/\ WhitelistAdd(last', u)
                /\ Cardinality(placeholder) = 1
                /\ \E d \in 1..MaxSlots :
                       LimitsOf(Wallet, u, "whitelist") = {1 + d}
                /\ ~Holds(Wallet, u, last'.wallet, "whitelist"))
                => \E d \in 1..MaxSlots :
                       /\ LimitsOf(Wallet, u, "whitelist") = {1 + d}
                       /\ IF Cardinality(others) < d
                          THEN /\ last'.reply = "ok"
                               /\ Len(Wallet') = Len(Wallet) + 1
                          ELSE /\ last'.reply = "SlotLimitExceeded"
                               /\ Wallet' = Wallet
            /\ (/\ last'.op = "check" /\ last'.wallet = "NONE"
                /\ last'.listType = "whitelist" /\ placeholder # {})
                => last'.reply = "present"
            /\ (last'.op = "export" /\ last'.reply = "exported")
                => \A i \in placeholder :
                       LET fields == SplitOn(Lines(last'.csv)[i + 1], ",")
                       IN  fields[1] = <<u>> /\ fields[2] = <<"NONE">>]_vars

\* After increase(u1, 1) on the empty list u1 has added one address, and the
\* add of a second one has been refused: 1 add under the limit 2.
C21_Witness ==
    /\ WhitelistAdd(last, "u1") /\ last.reply = "SlotLimitExceeded"
    /\ adds["u1"] = 1
    /\ Len(Wallet) = 2
    /\ Wallet[1].walletAddress = "NONE" /\ Wallet[1].discordId = "u1"
    /\ LimitsOf(Wallet, "u1", "whitelist") = {2}
    /\ ~Holds(Wallet, "u1", last.wallet, "whitelist")

\* C22: the documents an add fetches are the owner's Entries of the list in
\* store order; the limit it uses is 1 when it fetched none and otherwise
\* the maxSlots of the first one; the add is refused with SlotLimitExceeded
\* only when it fetched at least that many, succeeds only when it fetched
\* fewer, and the Entry it creates carries that limit while every Entry
\* that was there stays as it was.
C22_EffectiveLimit ==
    [][\A p \in Procs :
        LET h == procs[p]
            g == procs'[p]
            effective == IF Len(h.docs) = 0 THEN 1
                         ELSE h.docs[1].maxWhitelistEntries
        IN  /\ (h.pc = "idle" /\ g.pc = "add_create")
                => /\ Len(g.docs) =
                          Cardinality(OwnerDocs(Wallet, g.userId, g.listType))
                   /\ \A j \in 1..Len(g.docs) :
                          /\ g.docs[j].idx \in
                                 OwnerDocs(Wallet, g.userId, g.listType)
                          /\ g.docs[j].maxWhitelistEntries =
                                 Wallet[g.docs[j].idx].maxWhitelistEntries
                          /\ j > 1 => g.docs[j - 1].idx < g.docs[j].idx
            /\ (h.pc = "add_create" /\ g.reply = "SlotLimitExceeded")
                => Len(h.docs) >= effective /\ Wallet' = Wallet
            /\ (h.pc = "add_create" /\ g.reply = "ok")
                => /\ Len(h.docs) < effective
                   /\ Len(Wallet') = Len(Wallet) + 1
                   /\ SubSeq(Wallet', 1, Len(Wallet)) = Wallet
                   /\ Wallet'[Len(Wallet')].discordId = h.userId
                   /\ Wallet'[Len(Wallet')].walletAddress = h.wallet
                   /\ Wallet'[Len(Wallet')].listType = h.listType
                   /\ Wallet'[Len(Wallet')].maxWhitelistEntries = effective]_vars

\* An add has succeeded for an owner whose two Entries carried 3 and 2: the
\* new Entry carries the 3 of the first.
C22_Witness ==
    /\ \E p \in Procs : procs[p].op = "add" /\ procs[p].reply = "ok"
    /\ Len(Wallet) = 3
    /\ Wallet[1].maxWhitelistEntries = 3
    /\ Wallet[2].maxWhitelistEntries = 2
    /\ Wallet[3].maxWhitelistEntries = 3

\* C23: when two increases for the same owner have both rewritten the
\* owner's Entries and replied, every Entry of the owner carries the limit
\* L the earlier of them read plus both increments.
C23_ConcurrentIncreases ==
    (/\ \A p \in Procs : /\ procs[p].op = "increase"
                         /\ procs[p].pc = "done"
                         /\ procs[p].reply = "updated"
     /\ procs[1].userId = procs[2].userId)
    => LET L == Min({procs[1].oldMax, procs[2].oldMax})
           d1 == procs[1].newMax - procs[1].oldMax
           d2 == procs[2].newMax - procs[2].oldMax
       IN  \A i \in OwnerDocs(Wallet, procs[1].userId, "whitelist") :
               Wallet[i].maxWhitelistEntries = L + d1 + d2

\* The limit an add would use for the owner on the whitelist.
EffectiveLimit(s, u) == currentMaxOf(FindByOwner(s, u, "whitelist"))

\* C24: every Entry carries maxSlots >= 1, and when commands run one at a
\* time no step lowers the effective whitelist limit of an owner.
C24_LimitMonotone ==
    [][/\ \A i \in 1..Len(Wallet) : Wallet[i].maxWhitelistEntries >= 1
       /\ \A i \in 1..Len(Wallet') : Wallet'[i].maxWhitelistEntries >= 1
       /\ \A u \in Users :
              EffectiveLimit(Wallet', u) >= EffectiveLimit(Wallet, u)]_vars

\* The limit of u2 has gone from the default to 3 through the placeholder,
\* while u1 holds an Entry under the default limit.
C24_Witness ==
    /\ last.op = "increase" /\ last.reply = "created" /\ last.userId = "u2"
    /\ EffectiveLimit(Wallet, "u2") = 3
    /\ EffectiveLimit(Wallet, "u1") = 1
    /\ Holds(Wallet, "u1", "a", "whitelist")

\* C25: a POST /whitelist that passed authentication, with both fields and
\* a (discordId, walletAddress) no Entry has, answers 200 and creates the
\* Entry however many Entries the owner holds and whatever maxSlots they
\* carry; the Entry created carries maxSlots 1.
C25_HttpAddBypass ==
    [][last'.op \in {"post0", "post1"} =>
        LET d == last'.userId
            w == last'.wallet
        IN  (/\ last'.reply # "403" /\ d # undefined /\ w # undefined
             /\ ~\E i \in 1..Len(Wallet) : /\ Wallet[i].discordId = d
                                           /\ Wallet[i].walletAddress = w)
            => /\ last'.reply = "200"
               /\ Wallet' = Append(Wallet,
                      [discordId |-> d, walletAddress |-> w,
                       listType |-> undefined, registeredViaCode |-> FALSE,
                       maxWhitelistEntries |-> 1])]_vars

\* A POST has created a second Entry for u1, with maxSlots 1, next to an
\* Entry of u1 that carries the limit 1 as well: 2 Entries under the limit 1.
C25_Witness ==
    /\ last.op = "post0" /\ last.reply = "200" /\ last.userId = "u1"
    /\ Len(Wallet) = 2
    /\ \A i \in 1..2 : /\ Wallet[i].discordId = "u1"
                       /\ Wallet[i].maxWhitelistEntries = 1
    /\ Wallet[2].walletAddress = last.wallet

\* C26: in the single-wallet bot a 'whitelist' submission is answered by the
\* first of these that applies: the caller holds no role named whitelist
\* (refused), the caller already has an Entry (already submitted, whatever
\* the address looks like), the address is not 0x followed by exactly 40
\* hexadecimal characters (invalid format); none of them stores anything.
\* Only a submission that passed all three reaches the save, which either
\* appends the Entry or, when the owner has got an Entry meanwhile, stores
\* nothing and answers with the error reply.  Under every interleaving each
\* owner has at most one Entry.
WellFormed(w) ==
    /\ Len(w) = 2 + HexLength
    /\ SubSeq(w, 1, 2) = <<"0", "x">>
    /\ \A i \in 3..Len(w) : w[i] \in HexChars

Named(roles) ==
    roles \cap {"whitelist", "Whitelist", "WHITELIST", "WhiteList"} # {}

C26_SingleWallet ==
    [][ /\ \A u \in Users :
              Cardinality({i \in 1..Len(Wallet') : Wallet'[i].discordId = u})
                  <= 1
        /\ \A p \in Procs :
            LET h == procs[p]
                g == procs'[p]
                has == \E i \in 1..Len(Wallet) : Wallet[i].discordId = g.userId
            IN  /\ (h.pc = "idle" /\ g.pc # "idle") =>
                      /\ Wallet' = Wallet
                      /\ g.pc = "save" \/ (g.pc = "done" /\ g.reply # "none")
                      /\ ~Named(g.roles) => g.reply = "NoRole"
                      /\ (Named(g.roles) /\ has) =>
                             g.reply = "AlreadySubmitted"
                      /\ (Named(g.roles) /\ ~has) =>
                             IF WellFormed(g.wallet)
                             THEN g.pc = "save" /\ g.reply = "none"
                             ELSE g.reply = "InvalidFormat"
                /\ (h.pc = "save" /\ g.pc = "done") =>
                      /\ WellFormed(h.wallet)
                      /\ IF has
                         THEN g.reply = "Error" /\ Wallet' = Wallet
                         ELSE /\ g.reply = "ok"
                              /\ Wallet' = Append(Wallet,
                                     [discordId |-> h.userId,
                                      walletAddress |-> h.wallet])
                /\ Len(Wallet') > Len(Wallet) =>
                      \E q \in Procs :
                          procs[q].pc = "save" /\ procs'[q].reply = "ok"
      ]_vars

\* Two submissions of one owner raced: one was stored and the other got the
\* error reply; the other owner, who has an Entry, was told so for an
\* address that is too short.
C26_Witness ==
    /\ Len(Wallet) = 2
    /\ procs[1].userId = "u1" /\ procs[1].reply = "Error"
    /\ procs[2].userId = "u2" /\ procs[2].reply = "AlreadySubmitted"
    /\ Len(procs[2].wallet) = 1 + HexLength
    /\ \E i \in 1..2 : Wallet[i].discordId = "u1"

====
